---- MODULE Spec2Model ----
(***************************************************************************)
(* A model of fitsrotate_rs (src/src/main.rs): one run of main, which      *)
(* reads a FITS cube, parses the mode argument, moves the FREQ axis of the *)
(* cube to the last array position and writes cube and header to           *)
(* <input>.rot.fits.                                                       *)
(*                                                                         *)
(* Strings of the command line are sequences of one-character strings.     *)
(* Header cards are strings ("CTYPE1"), built as the code builds them.     *)
(* An ndarray is its raw vector, its shape and its strides; sequences are  *)
(* 1-based here, so array position p of the code is element p + 1.         *)
(***************************************************************************)
EXTENDS Integers, Sequences, FiniteSets, TLC

VARIABLES
    pc,         \* position of main: start, read, parse, rotate, write, done, panic
    src,        \* the source FITS file: [shape, hdr, data]
    dest,       \* the destination path: [state, shape, hdr, pixels]
    mode,       \* args.mode
    overwrite,  \* args.overwrite
    fits_cube,  \* main's fits_cube, an ArrayD<f32>
    mode_vec,   \* main's mode_vec, the Result of parse_mode
    new_axes,   \* rotate_fits_cube_axes' new_axes, as printed
    rotated,    \* main's rotated_fits_cube_s, a RotatedFitsCube
    error       \* what main reported on the error stream, "none" if nothing

vars == <<pc, src, dest, mode, overwrite, fits_cube, mode_vec, new_axes, rotated, error>>

----------------------------------------------------------------------------
(* Bounds of the model *)

MaxNaxis == 3
MaxExtent == 2
MaxModeLen == 5
MaxRunModeLen == 3

----------------------------------------------------------------------------
(* Helpers *)

RECURSIVE Prod(_, _)
\* product of s[from..Len(s)]
Prod(s, from) == IF from > Len(s) THEN 1 ELSE s[from] * Prod(s, from + 1)

RECURSIVE Dot(_, _, _)
\* sum over j >= from of a[j] * b[j]
Dot(a, b, from) == IF from > Len(a) THEN 0 ELSE a[from] * b[from] + Dot(a, b, from + 1)

EmptyHdr == [k \in {} |-> ""]

EmptyCube == [shape |-> <<>>, strides |-> <<>>, data |-> <<>>]

\* the indices of an array of the given shape
Indices(shape) == {k \in [1..Len(shape) -> 0..MaxExtent] : \A j \in 1..Len(shape) : k[j] < shape[j]}

----------------------------------------------------------------------------
(* ndarray *)

\* strides of a freshly read array: standard (row-major, C) layout
StandardStrides(shape) == [j \in 1..Len(shape) |-> Prod(shape, j + 1)]

\* ArrayD::permuted_axes: axis axes[j] of the array becomes axis j of the result;
\* the elements are not moved, only dimensions and strides are permuted
permuted_axes(cube, axes) ==
    [shape   |-> [j \in 1..Len(axes) |-> cube.shape[axes[j] + 1]],
     strides |-> [j \in 1..Len(axes) |-> cube.strides[axes[j] + 1]],
     data    |-> cube.data]

\* ArrayD::into_raw_vec: the elements as they are stored, whatever the strides
into_raw_vec(cube) == cube.data

\* the element of cube at index k
At(cube, k) == cube.data[Dot(k, cube.strides, 1) + 1]

----------------------------------------------------------------------------
(* fits_index_to_array_index *)

\* the arithmetic of the doc comment's examples (3 -> 2, 1 -> 0, 2 -> 1 for naxis = 3),
\* which drops the reversal
fits_index_to_array_index_unreversed(fits_index, naxis) == fits_index - 1

fits_index_to_array_index(fits_index, naxis) ==
    LET range == [k \in 1..naxis |-> naxis - k]      \* (0..naxis).rev()
    IN  range[(fits_index - 1) + 1]                   \* Vec::from_iter(range)[fits_index - 1]

----------------------------------------------------------------------------
(* rotate_fits_cube_axes *)

Card(card_stub, fits_idx) == card_stub \o ToString(fits_idx)

\* hdu.read_key: the value of the card, or an error when the card is absent
read_key(hdr, card) ==
    IF card \in DOMAIN hdr THEN [ok |-> TRUE, val |-> hdr[card]]
                           ELSE [ok |-> FALSE, val |-> ""]

\* new_axes.remove(idx); new_axes.insert(0, idx): the axis moved to the first slot
RemoveInsertFirst(axes, idx) ==
    [j \in 1..Len(axes) |->
        IF j = 1 THEN idx
        ELSE IF j - 1 < idx + 1 THEN axes[j - 1] ELSE axes[j]]

\* new_axes.remove(idx); new_axes.push(idx)
RemovePush(axes, idx) ==
    [j \in 1..Len(axes) |->
        IF j = Len(axes) THEN idx
        ELSE IF j < idx + 1 THEN axes[j] ELSE axes[j + 1]]

RECURSIVE FreqLoop(_, _, _)
\* the for loop over fits_idx in 1..shape.len() + 1, from fits_idx on
FreqLoop(cube, hdr, fits_idx) ==
    LET naxis == Len(cube.shape)
        axes == [j \in 1..naxis |-> j - 1]
        head_val == read_key(hdr, Card("CTYPE", fits_idx))
    IN  IF fits_idx > naxis
        THEN [kind |-> "panic", new_axes |-> <<>>, data |-> EmptyCube, fits_idx |-> 0]
        ELSE IF ~head_val.ok
        THEN [kind |-> "err", new_axes |-> <<>>, data |-> EmptyCube, fits_idx |-> 0]
        ELSE IF head_val.val = "FREQ"
        THEN LET idx == fits_index_to_array_index(fits_idx, naxis)
                 moved == RemovePush(axes, idx)
             IN  [kind |-> "ok", new_axes |-> moved,
                  data |-> permuted_axes(cube, moved), fits_idx |-> fits_idx]
        ELSE FreqLoop(cube, hdr, fits_idx + 1)

rotate_fits_cube_axes(cube, hdr) == FreqLoop(cube, hdr, 1)

----------------------------------------------------------------------------
(* write_fits_cube *)

Stubs == <<"CTYPE", "CRVAL", "CDELT", "CRPIX", "CUNIT">>

new_spec_idx == 1

\* both arms writing to new_spec_idx: the card of axis 1 is never moved to old_spec_idx
NewCardIdxOneWay(fits_idx, old_spec_idx) == new_spec_idx

\* the card one pass of the inner loop writes, given the axis it reads
NewCardIdx(fits_idx, old_spec_idx) ==
    IF fits_idx = old_spec_idx THEN new_spec_idx ELSE old_spec_idx

RECURSIVE CardLoop(_, _, _, _, _)
\* the two nested loops from pass n on; pass n is stub (n - 1) \div naxis + 1,
\* fits_idx (n - 1) % naxis + 1.  A missing source card panics (unwrap).
CardLoop(hdr, old_hdr, old_spec_idx, naxis, n) ==
    IF n > Len(Stubs) * naxis THEN [ok |-> TRUE, hdr |-> hdr]
    ELSE
    LET card_stub == Stubs[((n - 1) \div naxis) + 1]
        fits_idx == ((n - 1) % naxis) + 1
    IN  IF fits_idx = old_spec_idx \/ fits_idx = new_spec_idx
        THEN LET old_card == Card(card_stub, fits_idx)
                 new_card == Card(card_stub, NewCardIdx(fits_idx, old_spec_idx))
                 head_val == read_key(old_hdr, old_card)
             IN  IF ~head_val.ok THEN [ok |-> FALSE, hdr |-> hdr]
                 ELSE CardLoop([k \in DOMAIN hdr \cup {new_card} |->
                                   IF k = new_card THEN head_val.val ELSE hdr[k]],
                               old_hdr, old_spec_idx, naxis, n + 1)
        ELSE CardLoop(hdr, old_hdr, old_spec_idx, naxis, n + 1)

\* hdu.copy_to(old_file, fits_file): the cards of the source HDU in the new file
copy_to(old_hdr) == old_hdr

write_fits_cube(d, cube, old_spec_idx, old_file, ow) ==
    IF d.state # "absent" /\ ~ow
    THEN [kind |-> "err", dest |-> d]
    ELSE
    LET \* remove_file, FitsFile::create(..).with_custom_primary(..), copy_to
        created == [state |-> "partial", shape |-> cube.shape,
                    hdr |-> copy_to(old_file.hdr), pixels |-> <<>>]
        cards == CardLoop(created.hdr, old_file.hdr, old_spec_idx, Len(cube.shape), 1)
    IN  IF ~cards.ok
        THEN [kind |-> "panic", dest |-> [created EXCEPT !.hdr = cards.hdr]]
        ELSE [kind |-> "ok",
              dest |-> [state |-> "written", shape |-> cube.shape,
                        hdr |-> cards.hdr, pixels |-> into_raw_vec(cube)]]

----------------------------------------------------------------------------
(* parse_mode *)

Digits == <<"0", "1", "2", "3", "4", "5", "6", "7", "8", "9">>

IsDigit(c) == \E d \in 1..Len(Digits) : Digits[d] = c

DigitVal(c) == (CHOOSE d \in 1..Len(Digits) : Digits[d] = c) - 1

RECURSIVE Split(_, _)
\* str::split(","), cur being the token read so far
Split(s, cur) ==
    IF s = <<>> THEN <<cur>>
    ELSE IF Head(s) = "," THEN <<cur>> \o Split(Tail(s), <<>>)
    ELSE Split(Tail(s), Append(cur, Head(s)))

RECURSIVE Decimal(_, _)
Decimal(t, acc) == IF t = <<>> THEN acc ELSE Decimal(Tail(t), 10 * acc + DigitVal(Head(t)))

\* str::parse::<usize>: an optional "+", then one or more decimal digits
parse_usize(m) ==
    LET t == IF m # <<>> /\ Head(m) = "+" THEN Tail(m) ELSE m
    IN  IF t # <<>> /\ \A j \in 1..Len(t) : IsDigit(t[j])
        THEN [ok |-> TRUE, val |-> Decimal(t, 0)]
        ELSE [ok |-> FALSE, val |-> 0]

RECURSIVE ParseLoop(_, _)
\* the for loop over mode_split, mode_int being the vector pushed so far
ParseLoop(mode_split, mode_int) ==
    IF mode_split = <<>> THEN [ok |-> TRUE, val |-> mode_int, err |-> "none"]
    ELSE LET m == parse_usize(Head(mode_split))
         IN  IF m.ok THEN ParseLoop(Tail(mode_split), Append(mode_int, m.val))
             ELSE [ok |-> FALSE, val |-> <<>>, err |-> "ModeParse"]

parse_mode(m, cube) ==
    IF Len(m) # Len(cube.shape)
    THEN [ok |-> FALSE, val |-> <<>>, err |-> "ModeLength"]
    ELSE ParseLoop(Split(m, <<>>), <<>>)

----------------------------------------------------------------------------
(* main *)

\* check_file_exists(&out_filename, args.overwrite)
CheckFileExists ==
    /\ pc = "start"
    /\ IF ~overwrite /\ dest.state # "absent"
       THEN pc' = "done" /\ error' = "ExistingFile"
       ELSE pc' = "read" /\ error' = error
    /\ UNCHANGED <<src, dest, mode, overwrite, fits_cube, mode_vec, new_axes, rotated>>

\* read_fits_cube(&filename)
ReadFitsCube ==
    /\ pc = "read"
    /\ fits_cube' = [shape |-> src.shape, strides |-> StandardStrides(src.shape),
                     data |-> src.data]
    /\ pc' = "parse"
    /\ UNCHANGED <<src, dest, mode, overwrite, mode_vec, new_axes, rotated, error>>

\* parse_mode(&args.mode, &fits_cube) and the match on its result
ParseMode ==
    /\ pc = "parse"
    /\ mode_vec' = parse_mode(mode, fits_cube)
    /\ IF mode_vec'.ok
       THEN pc' = "rotate" /\ error' = error
       ELSE pc' = "done" /\ error' = mode_vec'.err
    /\ UNCHANGED <<src, dest, mode, overwrite, fits_cube, new_axes, rotated>>

\* rotate_fits_cube_axes(fits_cube.clone(), &mut fits_file) and the Err arm of the match
RotateFitsCubeAxes ==
    /\ pc = "rotate"
    /\ LET r == rotate_fits_cube_axes(fits_cube, src.hdr)
       IN  /\ new_axes' = r.new_axes
           /\ rotated' = [data |-> r.data, fits_idx |-> r.fits_idx]
           /\ pc' = CASE r.kind = "ok" -> "write"
                      [] r.kind = "err" -> "done"
                      [] OTHER -> "panic"
           /\ error' = IF r.kind = "err" THEN "KeyMissing" ELSE error
    /\ UNCHANGED <<src, dest, mode, overwrite, fits_cube, mode_vec>>

\* write_fits_cube(&out_filename, data, fits_idx, fits_file, args.overwrite) and the match
WriteFitsCube ==
    /\ pc = "write"
    /\ LET w == write_fits_cube(dest, rotated.data, rotated.fits_idx, src, overwrite)
       IN  /\ dest' = w.dest
           /\ pc' = IF w.kind = "panic" THEN "panic" ELSE "done"
           /\ error' = IF w.kind = "err" THEN "ExistingFile" ELSE error
    /\ UNCHANGED <<src, mode, overwrite, fits_cube, mode_vec, new_axes, rotated>>

Next ==
    \/ CheckFileExists
    \/ ReadFitsCube
    \/ ParseMode
    \/ RotateFitsCubeAxes
    \/ WriteFitsCube

----------------------------------------------------------------------------
(* Initial states: the files on disk and the command line *)

Naxis == Len(src.shape)

Shapes == UNION {[1..n -> 1..MaxExtent] : n \in 1..MaxNaxis}

AllCards(n) == {Card(Stubs[s], i) : s \in 1..Len(Stubs), i \in 1..n}

\* the value the source header holds for a card that is not a CTYPE naming FREQ
SrcVal(card) == "src_" \o card

\* the cards a source header of n axes may lack: none, or any one of them
Absences(n) == {{}} \cup {{c} : c \in AllCards(n)}

\* the source header of n axes whose CTYPE is "FREQ" on the axes in freq, without
\* the cards in absent
SrcHeader(n, freq, absent) ==
    [c \in AllCards(n) \ absent |->
        IF \E i \in freq : c = Card("CTYPE", i) THEN "FREQ" ELSE SrcVal(c)]

\* the samples of the source cube: sample k of the raw vector has value k
SrcData(shape) == [k \in 1..Prod(shape, 1) |-> k]

SrcFile(shape, freq, absent) ==
    [shape |-> shape, hdr |-> SrcHeader(Len(shape), freq, absent), data |-> SrcData(shape)]

ModeAlphabet == {"1", "2", "3", ",", "a"}

RunAlphabet == {"1", "2", ","}

ModeStrings(alphabet, maxlen) == UNION {[1..l -> alphabet] : l \in 0..maxlen}

AbsentDest == [state |-> "absent", shape |-> <<>>, hdr |-> EmptyHdr, pixels |-> <<>>]

OldDest == [state |-> "old", shape |-> <<>>, hdr |-> EmptyHdr, pixels |-> <<>>]

\* main is entered: nothing read, parsed or written yet
StartWith(file, m, d, ow) ==
    /\ pc = "start"
    /\ src = file
    /\ mode = m
    /\ dest = d
    /\ overwrite = ow
    /\ fits_cube = EmptyCube
    /\ mode_vec = [ok |-> FALSE, val |-> <<>>, err |-> "unset"]
    /\ new_axes = <<>>
    /\ rotated = [data |-> EmptyCube, fits_idx |-> 0]
    /\ error = "none"

\* every input varies
Init ==
    \E sh \in Shapes :
        \E freq \in SUBSET (1..Len(sh)), absent \in Absences(Len(sh)) :
            \E m \in ModeStrings(RunAlphabet, MaxRunModeLen), d \in {AbsentDest, OldDest},
               ow \in BOOLEAN :
                StartWith(SrcFile(sh, freq, absent), m, d, ow)

Spec == Init /\ [][Next]_vars

\* the mode is a run of "1"s that parse_mode accepts, the destination path is free:
\* the inputs that vary are the source cube and its header
InitCube ==
    \E sh \in Shapes :
        \E freq \in SUBSET (1..Len(sh)), absent \in Absences(Len(sh)) :
            StartWith(SrcFile(sh, freq, absent), [j \in 1..Len(sh) |-> "1"], AbsentDest, FALSE)

SpecCube == InitCube /\ [][Next]_vars

\* the source has every card, FREQ on file axis 1 and all extents 1:
\* the inputs that vary are the mode and the number of axes
InitParse ==
    \E n \in 1..MaxNaxis, m \in ModeStrings(ModeAlphabet, MaxModeLen) :
        StartWith(SrcFile([j \in 1..n |-> 1], {1}, {}), m, AbsentDest, FALSE)

SpecParse == InitParse /\ [][Next]_vars

----------------------------------------------------------------------------
(* Vocabulary of the properties *)

\* parse_mode has returned; rotate_fits_cube_axes has returned or panicked
ParseActed == mode_vec.err # "unset"

RotateActed == mode_vec.ok /\ pc \in {"write", "done", "panic"}

WriteCompleted == pc = "done" /\ dest.state = "written"

AllCtypePresent == \A i \in 1..Naxis : Card("CTYPE", i) \in DOMAIN src.hdr

AllCardsPresent == DOMAIN src.hdr = AllCards(Naxis)

IsFreq(i) == Card("CTYPE", i) \in DOMAIN src.hdr /\ src.hdr[Card("CTYPE", i)] = "FREQ"

HasFreq == \E i \in 1..Naxis : IsFreq(i)

\* the smallest file-axis number whose CTYPE is FREQ
FirstFreq == CHOOSE i \in 1..Naxis : IsFreq(i) /\ \A j \in 1..(i - 1) : ~IsFreq(j)

\* s with the element at array position p moved to the last slot
MovedToEnd(s, p) ==
    [j \in 1..Len(s) |-> IF j = Len(s) THEN s[p + 1] ELSE IF j < p + 1 THEN s[j] ELSE s[j + 1]]

Perms(n) == {p \in [1..n -> 1..n] : \A a, b \in 1..n : p[a] = p[b] => a = b}

----------------------------------------------------------------------------
(* Properties *)

C2_FirstFreqMovedLast ==
    /\ RotateActed /\ AllCtypePresent /\ HasFreq =>
        /\ rotated.fits_idx = FirstFreq
        /\ new_axes = MovedToEnd([j \in 1..Naxis |-> j - 1], Naxis - FirstFreq)
        /\ rotated.data.shape = MovedToEnd(src.shape, Naxis - FirstFreq)
    /\ LET r == rotate_fits_cube_axes(
                    [shape |-> <<10, 20, 30>>, strides |-> <<600, 30, 1>>, data |-> <<>>],
                    [c \in {"CTYPE1", "CTYPE2", "CTYPE3"} |->
                        IF c = "CTYPE1" THEN "RA" ELSE IF c = "CTYPE2" THEN "DEC" ELSE "FREQ"])
       IN  r.kind = "ok" /\ r.fits_idx = 3 /\ r.data.shape = <<20, 30, 10>>

C2_Witness ==
    /\ pc = "write" /\ Naxis = 3 /\ AllCtypePresent
    /\ IsFreq(2) /\ IsFreq(3) /\ ~IsFreq(1)
    /\ src.shape = <<1, 2, 1>>
    /\ rotated.fits_idx = 2 /\ rotated.data.shape = <<1, 1, 2>>

C1_HeaderFollowsData ==
    WriteCompleted /\ AllCardsPresent =>
        \A n \in 1..Naxis, s \in 1..Len(Stubs) :
            LET old_pos == new_axes[(Naxis - n) + 1]
                old_axis == Naxis - old_pos
            IN  dest.hdr[Card(Stubs[s], n)] = src.hdr[Card(Stubs[s], old_axis)]

\* C5: the pixel buffer written is the permuted cube in row-major order of the new
\* shape: the sample at the row-major offset of new index k is the source sample
\* whose index has k[j] on old axis order[j].
C5_PixelsArePermuted ==
    WriteCompleted =>
        /\ Len(dest.pixels) = Prod(dest.shape, 1)
        /\ \A k \in Indices(dest.shape) :
              LET old_index == [a \in 1..Naxis |-> k[CHOOSE j \in 1..Naxis : new_axes[j] + 1 = a]]
              IN  dest.pixels[Dot(k, StandardStrides(dest.shape), 1) + 1] = At(fits_cube, old_index)

\* C6: with every CTYPE present and none equal to FREQ, rotate_fits_cube_axes returns
\* an AxisNotFound error and main reports it and ends normally; there is no panic.
C6_AxisNotFoundIsReturned ==
    RotateActed /\ AllCtypePresent /\ ~HasFreq => pc = "done" /\ error = "AxisNotFound"

\* C7: when parse_mode accepted the mode, output file axis k carries the cards of
\* the source file axis the mode names at position k.
C7_ModeOrderIsApplied ==
    WriteCompleted /\ AllCardsPresent /\ mode_vec.ok =>
        \A k \in 1..Len(mode_vec.val), s \in 1..Len(Stubs) :
            k <= Naxis /\ mode_vec.val[k] \in 1..Naxis =>
                dest.hdr[Card(Stubs[s], k)] = src.hdr[Card(Stubs[s], mode_vec.val[k])]

\* C8: parse_mode returns Ok(seq) only when seq is a permutation of 1..=naxis.
C8_OkOnlyForPermutations ==
    ParseActed /\ mode_vec.ok => mode_vec.val \in Perms(Naxis)

DigitChar(n) == Digits[n + 1]

DigitForm(p) == [j \in 1..Len(p) |-> DigitChar(p[j])]

CommaForm(p) ==
    [j \in 1..(2 * Len(p) - 1) |-> IF j % 2 = 1 THEN DigitChar(p[(j + 1) \div 2]) ELSE ","]

\* C9: for every permutation p of 1..=naxis, parse_mode accepts p written as a
\* comma-delimited list and as a digit sequence, and returns exactly p.
C9_PermutationTextAccepted ==
    ParseActed =>
        \A p \in Perms(Naxis) :
            mode = CommaForm(p) \/ mode = DigitForm(p) => mode_vec.ok /\ mode_vec.val = p

\* C10: a run that ends in a failure leaves the destination path absent or holding
\* the bytes it held before the run.
C10_NoPartialDestination ==
    pc = "panic" \/ (pc = "done" /\ error # "none") => dest.state \in {"absent", "old"}

====
